---- MODULE Spec2Model ----
(***************************************************************************)
(* Model of string_calculator.py: tokenize_string, infix_to_rpn and        *)
(* evaluate_rpn composed by evaluate_expression.                            *)
(*                                                                         *)
(* Strings are sequences of one-character strings; a token is the sequence *)
(* of its characters.  A float is an exact rational <<num, den>> in lowest *)
(* terms with den > 0.  Only dyadic rationals whose numerator and          *)
(* denominator stay within ValueBound are tracked: on those, IEEE double   *)
(* arithmetic is exact, so the model computes what Python computes.  A run *)
(* whose next value would leave that set stops with outcome "Unmodelled".  *)
(***************************************************************************)
EXTENDS Integers, Sequences, FiniteSets, TLC

\* Bounds of the model.
MaxLen == 4
MaxLenPow == 5
ValueBound == 30000

-----------------------------------------------------------------------------
\* Characters

DigitChars == {"0", "1", "2", "3", "4", "5", "6", "7", "8", "9"}
NumberChars == DigitChars \cup {"."}

DigitValue(c) ==
    CASE c = "0" -> 0 [] c = "1" -> 1 [] c = "2" -> 2 [] c = "3" -> 3
      [] c = "4" -> 4 [] c = "5" -> 5 [] c = "6" -> 6 [] c = "7" -> 7
      [] c = "8" -> 8 [] c = "9" -> 9

\* operators = {'+': (1,'L'), '-': (1,'L'), '*': (2,'L'), '/': (2,'L'), '^': (3,'R')}
operators ==
    [c \in {"+", "-", "*", "/", "^"} |->
        CASE c \in {"+", "-"} -> <<1, "L">>
          [] c \in {"*", "/"} -> <<2, "L">>
          [] c = "^" -> <<3, "R">>]

\* expression.replace(' ', '')
RECURSIVE RemoveSpaces(_)
RemoveSpaces(s) ==
    IF s = <<>> THEN <<>>
    ELSE IF Head(s) = " " THEN RemoveSpaces(Tail(s))
    ELSE <<Head(s)>> \o RemoveSpaces(Tail(s))

-----------------------------------------------------------------------------
\* Rational arithmetic standing for float64 arithmetic

Abs(n) == IF n < 0 THEN -n ELSE n

RECURSIVE GCD(_, _)
GCD(m, n) == IF n = 0 THEN m ELSE GCD(n, m % n)

Norm(n, d) ==
    LET g == GCD(Abs(n), Abs(d))
        s == IF d < 0 THEN -1 ELSE 1
    IN  <<(s * n) \div g, (s * d) \div g>>

RECURSIVE IsPow2(_)
IsPow2(n) == n = 1 \/ (n > 1 /\ n % 2 = 0 /\ IsPow2(n \div 2))

\* The values on which the model's arithmetic is the float64 arithmetic.
Exact(v) == Abs(v[1]) <= ValueBound /\ v[2] <= ValueBound /\ IsPow2(v[2])

Zero == <<0, 1>>
One == <<1, 1>>
None == <<>>

Add(x, y) == Norm(x[1] * y[2] + y[1] * x[2], x[2] * y[2])
Sub(x, y) == Norm(x[1] * y[2] - y[1] * x[2], x[2] * y[2])
Mul(x, y) == Norm(x[1] * y[1], x[2] * y[2])
Div(x, y) == Norm(x[1] * y[2], x[2] * y[1])

\* base^n for n >= 0, saturating once the magnitude passes ValueBound.
RECURSIVE PowNat(_, _, _)
PowNat(base, n, acc) ==
    IF n = 0 \/ Abs(acc) > ValueBound THEN acc
    ELSE PowNat(base, n - 1, acc * base)

PowInt(base, n) ==
    IF n = 0 THEN 1
    ELSE IF base = 0 THEN 0
    ELSE IF base = 1 THEN 1
    ELSE IF base = -1 THEN (IF n % 2 = 0 THEN 1 ELSE -1)
    ELSE PowNat(base, n, 1)

\* math.pow(x, y): kind "value", "ValueError" (math domain error) or
\* "Unmodelled" (the result is not tracked exactly).
Pow(x, y) ==
    IF y[2] = 1
    THEN IF y[1] >= 0
         THEN [kind |-> "value", val |-> Norm(PowInt(x[1], y[1]), PowInt(x[2], y[1]))]
         ELSE IF x[1] = 0
              THEN [kind |-> "ValueError", val |-> None]
              ELSE [kind |-> "value",
                    val |-> Norm(PowInt(x[2], -y[1]), PowInt(x[1], -y[1]))]
    ELSE IF x[1] < 0 THEN [kind |-> "ValueError", val |-> None]
    ELSE IF x[1] = 0
         THEN IF y[1] > 0 THEN [kind |-> "value", val |-> Zero]
              ELSE [kind |-> "ValueError", val |-> None]
    ELSE IF x = One THEN [kind |-> "value", val |-> One]
    ELSE [kind |-> "Unmodelled", val |-> None]

-----------------------------------------------------------------------------
\* float(token) on the tokens tokenize_string can produce

Unsigned(token) ==
    IF token # <<>> /\ Head(token) = "-" THEN Tail(token) ELSE token

CountDots(s) == Cardinality({p \in 1..Len(s) : s[p] = "."})

\* check_is_number: float(token) does not raise ValueError
check_is_number(token) ==
    LET u == Unsigned(token)
    IN  /\ \A p \in 1..Len(u) : u[p] \in NumberChars
        /\ \E p \in 1..Len(u) : u[p] \in DigitChars
        /\ CountDots(u) <= 1

RECURSIVE DigitsValue(_, _)
DigitsValue(s, acc) ==
    IF s = <<>> THEN acc
    ELSE IF Head(s) = "." THEN DigitsValue(Tail(s), acc)
    ELSE DigitsValue(Tail(s), 10 * acc + DigitValue(Head(s)))

RECURSIVE Pow10(_)
Pow10(n) == IF n = 0 THEN 1 ELSE 10 * Pow10(n - 1)

\* Number of digits after the decimal point.
FracLen(u) ==
    IF CountDots(u) = 0 THEN 0
    ELSE Len(u) - (CHOOSE p \in 1..Len(u) : u[p] = ".")

\* float(token), for a token on which check_is_number holds
ParseFloat(token) ==
    LET u == Unsigned(token)
        m == DigitsValue(u, 0)
        sgn == IF Head(token) = "-" THEN -1 ELSE 1
    IN  Norm(sgn * m, Pow10(FracLen(u)))

-----------------------------------------------------------------------------
\* tokenize_string helpers

\* NegativeStart with ')' left out of the characters a negative number may follow.
NegativeStartNoRightParen(e, idx) ==
    /\ e[idx + 1] = "-"
    /\ IF idx = 0 THEN TRUE ELSE e[idx] \in {"(", "-", "+", "*", "/", "^"}

\* char == '-' and (i == 0 or expression[i - 1] in '(-+*/^)'), i counted from 0
NegativeStart(e, idx) ==
    /\ e[idx + 1] = "-"
    /\ IF idx = 0 THEN TRUE ELSE e[idx] \in {"(", "-", "+", "*", "/", "^", ")"}

\* IsSymbol with '^' forgotten.
IsSymbolNoCaret(c) == c \in {"+", "-", "*", "/"} \/ c \in {"(", ")"}

\* char in operators or char in '()'
IsSymbol(c) == c \in DOMAIN operators \/ c \in {"(", ")"}

\* Flush that forgets to append the pending number.
FlushDropped(toks, cur) == toks

\* if current_number: tokens.append(''.join(current_number))
Flush(toks, cur) == IF cur # <<>> THEN Append(toks, cur) ELSE toks

-----------------------------------------------------------------------------
\* infix_to_rpn helpers

Last(s) == s[Len(s)]
Front(s) == SubSeq(s, 1, Len(s) - 1)

\* token in operators, for a token of the token list
IsOperator(tok) == Len(tok) = 1 /\ tok[1] \in DOMAIN operators

LeftParen == <<"(">>
RightParen == <<")">>

\* PopRule that pops on equal precedence for a right-associative operator too.
PopRuleRightPopsEqual(tok, top) ==
    \/ operators[tok][2] = "L" /\ operators[tok][1] <= operators[top][1]
    \/ operators[tok][2] = "R" /\ operators[tok][1] <= operators[top][1]

\* The condition of the while loop of the operator branch, past the
\* "stack and stack[-1] in operators" part.
PopRule(tok, top) ==
    \/ operators[tok][2] = "L" /\ operators[tok][1] <= operators[top][1]
    \/ operators[tok][2] = "R" /\ operators[tok][1] < operators[top][1]

\* The while loop of the operator branch: <<stack, output>> when it exits.
RECURSIVE PopOperators(_, _, _)
PopOperators(st, out, tok) ==
    IF st # <<>> /\ IsOperator(Last(st)) /\ PopRule(tok[1], Last(st)[1])
    THEN PopOperators(Front(st), Append(out, Last(st)), tok)
    ELSE <<st, out>>

\* while stack and stack[-1] != '(': output.append(stack.pop())
RECURSIVE PopToLeftParen(_, _)
PopToLeftParen(st, out) ==
    IF st # <<>> /\ Last(st) # LeftParen
    THEN PopToLeftParen(Front(st), Append(out, Last(st)))
    ELSE <<st, out>>

\* while stack: output.append(stack.pop())
RECURSIVE PopAll(_, _)
PopAll(st, out) ==
    IF st # <<>> THEN PopAll(Front(st), Append(out, Last(st))) ELSE out

-----------------------------------------------------------------------------
\* evaluate_rpn helpers

\* LeftOperand with 1 as the default.
LeftOperandOne(st) == IF st # <<>> THEN Last(st) ELSE One

\* a = stack.pop() if stack else 0, on the stack left after b was popped
LeftOperand(st) == IF st # <<>> THEN Last(st) ELSE Zero

\* Apply with the zero test of '/' on the left operand.
ApplyChecksLeft(tok, x, y) ==
    IF tok = <<"+">> THEN [kind |-> "value", val |-> Add(x, y)]
    ELSE IF tok = <<"-">> THEN [kind |-> "value", val |-> Sub(x, y)]
    ELSE IF tok = <<"*">> THEN [kind |-> "value", val |-> Mul(x, y)]
    ELSE IF tok = <<"/">>
         THEN IF x = Zero
              THEN [kind |-> "Division by zero is not allowed", val |-> None]
              ELSE [kind |-> "value", val |-> Div(x, y)]
    ELSE IF tok = <<"^">>
         THEN LET r == Pow(x, y)
              IN  IF r.kind = "ValueError"
                  THEN [kind |-> "math domain error", val |-> None]
                  ELSE r
    ELSE [kind |-> "nopush", val |-> None]

\* The if/elif chain on the token: the value pushed, the exception raised,
\* or "nopush" when no branch matches.
Apply(tok, x, y) ==
    IF tok = <<"+">> THEN [kind |-> "value", val |-> Add(x, y)]
    ELSE IF tok = <<"-">> THEN [kind |-> "value", val |-> Sub(x, y)]
    ELSE IF tok = <<"*">> THEN [kind |-> "value", val |-> Mul(x, y)]
    ELSE IF tok = <<"/">>
         THEN IF y = Zero
              THEN [kind |-> "Division by zero is not allowed", val |-> None]
              ELSE [kind |-> "value", val |-> Div(x, y)]
    ELSE IF tok = <<"^">>
         THEN LET r == Pow(x, y)
              IN  IF r.kind = "ValueError"
                  THEN [kind |-> "math domain error", val |-> None]
                  ELSE r
    ELSE [kind |-> "nopush", val |-> None]

-----------------------------------------------------------------------------
\* Inputs

Alphabet == {"0", "2", ".", "-", "+", "/", "^", "(", ")", "$", " "}
AlphabetPow == {"2", "3", "^", "*", "-"}

SeqsUpTo(S, n) == UNION {[1..m -> S] : m \in 0..n}

Examples ==
    { <<"(", "2", "+", "3", ")", "-", "4">>,
      <<"(", "2", "+", "3", ")", "*", "4">>,
      <<"2", "+", "3", "*", "4">>,
      <<"3", "-", "2", "-", "1">>,
      <<"2", "^", "3", "^", "2">>,
      <<"2", "*", "3", "^", "2">>,
      <<"-", "5", "3", " ", "+", " ", "-", "2", "4">>,
      <<"2", "+", "$", "3">>,
      <<"4", "/", "0", "$">>,
      <<"4", "/", "0">>,
      <<"4", "/", "-", "0">>,
      <<"2", "/", "(", "2", "-", "2", ")">>,
      <<"0", "/", "4">>,
      <<"2", ")", "+", "3">>,
      <<"(", "2", "+", "3">>,
      <<"1", ".", "2", ".", "3", "+", "4">>,
      <<"-", "(", "2", "+", "3", ")">>,
      <<"1", ".", "5", "+", "2", ".", "5">>,
      <<"^", "-", "1">>,
      <<"2", "/", "3">>,
      <<"+">>,
      <<>> }

-----------------------------------------------------------------------------
\* State

VARIABLES
    input,           \* the argument of evaluate_expression
    pc,              \* "start", "tokenize", "convert", "evaluate"
    outcome,         \* "none" while running, "returned", or the message of
                     \* the exception that ended the call
    expression,      \* tokenize_string: the text after replace(' ', '')
    tokens,          \* tokenize_string: tokens; infix_to_rpn: tokens
    current_number,  \* tokenize_string: current_number
    i,               \* tokenize_string: i (counted from 0)
    char,            \* tokenize_string: char
    output,          \* infix_to_rpn: output
    stack,           \* infix_to_rpn: stack
    k,               \* number of tokens the for loop of infix_to_rpn consumed
    rpn_expression,  \* evaluate_rpn: rpn_expression
    vstack,          \* evaluate_rpn: stack
    j,               \* number of tokens the for loop of evaluate_rpn consumed
    token,           \* the loop variable of the running for loop
    a,               \* evaluate_rpn: a
    b,               \* evaluate_rpn: b
    result           \* evaluate_expression: result

vars == <<input, pc, outcome, expression, tokens, current_number, i, char,
          output, stack, k, rpn_expression, vstack, j, token, a, b, result>>

tokVars == <<expression, tokens, current_number, i, char>>
convVars == <<output, stack, k>>
evalVars == <<rpn_expression, vstack, j, a, b, result>>

InitRest ==
    /\ pc = "start"
    /\ outcome = "none"
    /\ expression = <<>>
    /\ tokens = <<>>
    /\ current_number = <<>>
    /\ i = 0
    /\ char = ""
    /\ output = <<>>
    /\ stack = <<>>
    /\ k = 0
    /\ rpn_expression = <<>>
    /\ vstack = <<>>
    /\ j = 0
    /\ token = <<>>
    /\ a = None
    /\ b = None
    /\ result = None

Init ==
    /\ input \in Examples \cup SeqsUpTo(Alphabet, MaxLen)
    /\ InitRest

InitPow ==
    /\ input \in Examples \cup SeqsUpTo(AlphabetPow, MaxLenPow)
    /\ InitRest

Running == outcome = "none"

-----------------------------------------------------------------------------
\* tokenize_string

\* expression = expression.replace(' ', ''); tokens = []; current_number = []; i = 0
Strip ==
    /\ Running /\ pc = "start"
    /\ expression' = RemoveSpaces(input)
    /\ tokens' = <<>>
    /\ current_number' = <<>>
    /\ i' = 0
    /\ pc' = "tokenize"
    /\ UNCHANGED <<input, outcome, char, token>>
    /\ UNCHANGED convVars /\ UNCHANGED evalVars

\* if char.isdigit() or char == '.': current_number.append(char); i += 1
ScanNumberChar ==
    /\ Running /\ pc = "tokenize" /\ i < Len(expression)
    /\ expression[i + 1] \in NumberChars
    /\ char' = expression[i + 1]
    /\ current_number' = Append(current_number, expression[i + 1])
    /\ i' = i + 1
    /\ UNCHANGED <<input, pc, outcome, expression, tokens, token>>
    /\ UNCHANGED convVars /\ UNCHANGED evalVars

\* else: flush; the '-' starts a negative number; i += 1
ScanMinus ==
    /\ Running /\ pc = "tokenize" /\ i < Len(expression)
    /\ expression[i + 1] \notin NumberChars
    /\ NegativeStart(expression, i)
    /\ char' = expression[i + 1]
    /\ tokens' = Flush(tokens, current_number)
    /\ current_number' = <<expression[i + 1]>>
    /\ i' = i + 1
    /\ UNCHANGED <<input, pc, outcome, expression, token>>
    /\ UNCHANGED convVars /\ UNCHANGED evalVars

\* else: flush; a recognized operator or parenthesis is appended; i += 1
ScanSymbol ==
    /\ Running /\ pc = "tokenize" /\ i < Len(expression)
    /\ expression[i + 1] \notin NumberChars
    /\ ~NegativeStart(expression, i)
    /\ IsSymbol(expression[i + 1])
    /\ char' = expression[i + 1]
    /\ tokens' = Append(Flush(tokens, current_number), <<expression[i + 1]>>)
    /\ current_number' = <<>>
    /\ i' = i + 1
    /\ UNCHANGED <<input, pc, outcome, expression, token>>
    /\ UNCHANGED convVars /\ UNCHANGED evalVars

\* else: flush; raise ValueError(f"Unexpected character: {char}")
ScanUnexpected ==
    /\ Running /\ pc = "tokenize" /\ i < Len(expression)
    /\ expression[i + 1] \notin NumberChars
    /\ ~NegativeStart(expression, i)
    /\ ~IsSymbol(expression[i + 1])
    /\ char' = expression[i + 1]
    /\ tokens' = Flush(tokens, current_number)
    /\ current_number' = <<>>
    /\ outcome' = "Unexpected character"
    /\ UNCHANGED <<input, pc, expression, i, token>>
    /\ UNCHANGED convVars /\ UNCHANGED evalVars

\* The loop ends: the last number is appended, tokens is returned to
\* infix_to_rpn, which starts with output = [] and stack = [].
ScanReturn ==
    /\ Running /\ pc = "tokenize" /\ i = Len(expression)
    /\ tokens' = Flush(tokens, current_number)
    /\ current_number' = <<>>
    /\ output' = <<>>
    /\ stack' = <<>>
    /\ k' = 0
    /\ pc' = "convert"
    /\ UNCHANGED <<input, outcome, expression, i, char, token>>
    /\ UNCHANGED evalVars

-----------------------------------------------------------------------------
\* infix_to_rpn

\* if check_is_number(token): output.append(token)
ConvNumber ==
    /\ Running /\ pc = "convert" /\ k < Len(tokens)
    /\ check_is_number(tokens[k + 1])
    /\ token' = tokens[k + 1]
    /\ output' = Append(output, tokens[k + 1])
    /\ k' = k + 1
    /\ UNCHANGED <<input, pc, outcome, stack>>
    /\ UNCHANGED tokVars /\ UNCHANGED evalVars

\* elif token in operators: the while loop, then stack.append(token)
ConvOperator ==
    /\ Running /\ pc = "convert" /\ k < Len(tokens)
    /\ ~check_is_number(tokens[k + 1])
    /\ IsOperator(tokens[k + 1])
    /\ token' = tokens[k + 1]
    /\ LET r == PopOperators(stack, output, tokens[k + 1])
       IN  /\ stack' = Append(r[1], tokens[k + 1])
           /\ output' = r[2]
    /\ k' = k + 1
    /\ UNCHANGED <<input, pc, outcome>>
    /\ UNCHANGED tokVars /\ UNCHANGED evalVars

\* elif token == '(': stack.append(token)
ConvLeftParen ==
    /\ Running /\ pc = "convert" /\ k < Len(tokens)
    /\ tokens[k + 1] = LeftParen
    /\ token' = tokens[k + 1]
    /\ stack' = Append(stack, tokens[k + 1])
    /\ k' = k + 1
    /\ UNCHANGED <<input, pc, outcome, output>>
    /\ UNCHANGED tokVars /\ UNCHANGED evalVars

\* elif token == ')': the while loop, then stack.pop(), which raises
\* IndexError on an empty list
ConvRightParen ==
    /\ Running /\ pc = "convert" /\ k < Len(tokens)
    /\ tokens[k + 1] = RightParen
    /\ token' = tokens[k + 1]
    /\ LET r == PopToLeftParen(stack, output)
       IN  /\ output' = r[2]
           /\ IF r[1] = <<>>
              THEN /\ stack' = r[1]
                   /\ outcome' = "pop from empty list"
                   /\ k' = k
              ELSE /\ stack' = Front(r[1])
                   /\ outcome' = outcome
                   /\ k' = k + 1
    /\ UNCHANGED <<input, pc>>
    /\ UNCHANGED tokVars /\ UNCHANGED evalVars

\* No branch of the if/elif chain matches: the token is skipped.
ConvSkip ==
    /\ Running /\ pc = "convert" /\ k < Len(tokens)
    /\ ~check_is_number(tokens[k + 1])
    /\ ~IsOperator(tokens[k + 1])
    /\ tokens[k + 1] # LeftParen
    /\ tokens[k + 1] # RightParen
    /\ token' = tokens[k + 1]
    /\ k' = k + 1
    /\ UNCHANGED <<input, pc, outcome, output, stack>>
    /\ UNCHANGED tokVars /\ UNCHANGED evalVars

\* The for loop ends: the stack is popped to output, output is returned to
\* evaluate_expression as rpn, and evaluate_rpn starts with stack = [].
ConvReturn ==
    /\ Running /\ pc = "convert" /\ k = Len(tokens)
    /\ output' = PopAll(stack, output)
    /\ stack' = <<>>
    /\ rpn_expression' = PopAll(stack, output)
    /\ vstack' = <<>>
    /\ j' = 0
    /\ pc' = "evaluate"
    /\ UNCHANGED <<input, outcome, k, token, a, b, result>>
    /\ UNCHANGED tokVars

-----------------------------------------------------------------------------
\* evaluate_rpn

\* if check_is_number(token): stack.append(float(token))
EvalNumber ==
    /\ Running /\ pc = "evaluate" /\ j < Len(rpn_expression)
    /\ check_is_number(rpn_expression[j + 1])
    /\ token' = rpn_expression[j + 1]
    /\ IF Exact(ParseFloat(rpn_expression[j + 1]))
       THEN /\ vstack' = Append(vstack, ParseFloat(rpn_expression[j + 1]))
            /\ j' = j + 1
            /\ outcome' = outcome
       ELSE /\ vstack' = vstack
            /\ j' = j
            /\ outcome' = "Unmodelled"
    /\ UNCHANGED <<input, pc, rpn_expression, a, b, result>>
    /\ UNCHANGED tokVars /\ UNCHANGED convVars

\* else: b = stack.pop(); a = stack.pop() if stack else 0; the if/elif chain
EvalOther ==
    /\ Running /\ pc = "evaluate" /\ j < Len(rpn_expression)
    /\ ~check_is_number(rpn_expression[j + 1])
    /\ token' = rpn_expression[j + 1]
    /\ IF vstack = <<>>
       THEN /\ outcome' = "pop from empty list"
            /\ UNCHANGED <<vstack, j, a, b>>
       ELSE LET rest == Front(vstack)
                x == LeftOperand(rest)
                y == Last(vstack)
                rest2 == IF rest # <<>> THEN Front(rest) ELSE rest
                r == Apply(rpn_expression[j + 1], x, y)
            IN  /\ b' = y
                /\ a' = x
                /\ IF r.kind = "value"
                   THEN IF Exact(r.val)
                        THEN /\ vstack' = Append(rest2, r.val)
                             /\ j' = j + 1
                             /\ outcome' = outcome
                        ELSE /\ vstack' = rest2
                             /\ j' = j
                             /\ outcome' = "Unmodelled"
                   ELSE IF r.kind = "nopush"
                        THEN /\ vstack' = rest2
                             /\ j' = j + 1
                             /\ outcome' = outcome
                        ELSE /\ vstack' = rest2
                             /\ j' = j
                             /\ outcome' = r.kind
    /\ UNCHANGED <<input, pc, rpn_expression, result>>
    /\ UNCHANGED tokVars /\ UNCHANGED convVars

\* return stack[0], which raises IndexError on an empty list;
\* evaluate_expression returns the value as result
EvalReturn ==
    /\ Running /\ pc = "evaluate" /\ j = Len(rpn_expression)
    /\ IF vstack = <<>>
       THEN /\ outcome' = "list index out of range"
            /\ result' = result
       ELSE /\ outcome' = "returned"
            /\ result' = vstack[1]
    /\ UNCHANGED <<input, pc, rpn_expression, vstack, j, token, a, b>>
    /\ UNCHANGED tokVars /\ UNCHANGED convVars

-----------------------------------------------------------------------------

Next ==
    \/ Strip
    \/ ScanNumberChar
    \/ ScanMinus
    \/ ScanSymbol
    \/ ScanUnexpected
    \/ ScanReturn
    \/ ConvNumber
    \/ ConvOperator
    \/ ConvLeftParen
    \/ ConvRightParen
    \/ ConvSkip
    \/ ConvReturn
    \/ EvalNumber
    \/ EvalOther
    \/ EvalReturn

Spec == Init /\ [][Next]_vars

SpecPow == InitPow /\ [][Next]_vars

-----------------------------------------------------------------------------
\* Vocabulary of the properties, stated on the input text and independent
\* of the definitions above that model the code.

Done == outcome # "none"
Tokenized == pc \in {"convert", "evaluate"}

\* The input with all space characters removed.
Stripped == SelectSeq(input, LAMBDA c : c # " ")

AllowedChars == DigitChars \cup {".", "+", "-", "*", "/", "^", "(", ")"}
HasBadChar == \E p \in 1..Len(Stripped) : Stripped[p] \notin AllowedChars
FirstBadChar ==
    Stripped[CHOOSE p \in 1..Len(Stripped) :
                /\ Stripped[p] \notin AllowedChars
                /\ \A q \in 1..(p - 1) : Stripped[q] \in AllowedChars]

RECURSIVE Concat(_)
Concat(toks) == IF toks = <<>> THEN <<>> ELSE Head(toks) \o Concat(Tail(toks))

\* <<token, offset>>: the token that holds character p of the concatenation
\* of toks, and the place of that character in the token.
RECURSIVE TokenAt(_, _)
TokenAt(toks, p) ==
    IF p <= Len(Head(toks)) THEN <<Head(toks), p>>
    ELSE TokenAt(Tail(toks), p - Len(Head(toks)))

\* A digit/dot run that is a number: a digit, and at most one '.'.
NonNegLiteral(s) ==
    /\ s # <<>>
    /\ \A p \in 1..Len(s) : s[p] \in NumberChars
    /\ \E p \in 1..Len(s) : s[p] \in DigitChars
    /\ Cardinality({p \in 1..Len(s) : s[p] = "."}) <= 1

\* A digit/dot run that is not a number.
Malformed(s) ==
    /\ s # <<>>
    /\ \A p \in 1..Len(s) : s[p] \in NumberChars
    /\ ~NonNegLiteral(s)

\* The '-' at place p (from 1) of text e is the first character or follows
\* one of ( - + * / ^ ).
AfterStartOrSymbol(e, p) ==
    IF p = 1 THEN TRUE ELSE e[p - 1] \in {"(", "-", "+", "*", "/", "^", ")"}

FollowedByNumberChar(e, p) ==
    IF p = Len(e) THEN FALSE ELSE e[p + 1] \in NumberChars

Ex_ParenMinus == <<"(", "2", "+", "3", ")", "-", "4">>
Ex_PowChain == <<"2", "^", "3", "^", "2">>
Ex_Negatives == <<"-", "5", "3", " ", "+", " ", "-", "2", "4">>
Ex_BadAfterDiv == <<"4", "/", "0", "$">>
Ex_DivBySub == <<"2", "/", "(", "2", "-", "2", ")">>
Ex_UnaryParen == <<"-", "(", "2", "+", "3", ")">>

-----------------------------------------------------------------------------
\* Standard infix arithmetic on a text of non-negative literals, + - * / and
\* parentheses: expr := term {(+|-) term}, term := factor {(*|/) factor},
\* factor := literal | ( expr ).  ok is FALSE when the text is not such an
\* expression, divides by zero, or leaves the exactly tracked values.

RefFail == [ok |-> FALSE, val |-> None, pos |-> 0]

RECURSIVE RunEnd(_, _)
RunEnd(e, p) ==
    IF p <= Len(e) /\ e[p] \in NumberChars THEN RunEnd(e, p + 1) ELSE p

RECURSIVE RefExpr(_, _), RefExprRest(_, _, _), RefTerm(_, _),
          RefTermRest(_, _, _), RefFactor(_, _)

RefFactor(e, p) ==
    IF p > Len(e) THEN RefFail
    ELSE IF e[p] = "("
    THEN LET r == RefExpr(e, p + 1)
         IN  IF r.ok /\ r.pos <= Len(e) /\ e[r.pos] = ")"
             THEN [ok |-> TRUE, val |-> r.val, pos |-> r.pos + 1]
             ELSE RefFail
    ELSE IF e[p] \in NumberChars
    THEN LET q == RunEnd(e, p)
             lit == SubSeq(e, p, q - 1)
         IN  IF NonNegLiteral(lit) /\ Exact(ParseFloat(lit))
             THEN [ok |-> TRUE, val |-> ParseFloat(lit), pos |-> q]
             ELSE RefFail
    ELSE RefFail

RefTermRest(e, acc, p) ==
    IF p <= Len(e) /\ e[p] \in {"*", "/"}
    THEN LET f == RefFactor(e, p + 1)
         IN  IF ~f.ok \/ (e[p] = "/" /\ f.val = Zero) THEN RefFail
             ELSE LET v == IF e[p] = "*" THEN Mul(acc, f.val) ELSE Div(acc, f.val)
                  IN  IF Exact(v) THEN RefTermRest(e, v, f.pos) ELSE RefFail
    ELSE [ok |-> TRUE, val |-> acc, pos |-> p]

RefTerm(e, p) ==
    LET f == RefFactor(e, p)
    IN  IF f.ok THEN RefTermRest(e, f.val, f.pos) ELSE RefFail

RefExprRest(e, acc, p) ==
    IF p <= Len(e) /\ e[p] \in {"+", "-"}
    THEN LET t == RefTerm(e, p + 1)
         IN  IF ~t.ok THEN RefFail
             ELSE LET v == IF e[p] = "+" THEN Add(acc, t.val) ELSE Sub(acc, t.val)
                  IN  IF Exact(v) THEN RefExprRest(e, v, t.pos) ELSE RefFail
    ELSE [ok |-> TRUE, val |-> acc, pos |-> p]

RefExpr(e, p) ==
    LET t == RefTerm(e, p)
    IN  IF t.ok THEN RefExprRest(e, t.val, t.pos) ELSE RefFail

RefValid(e) == RefExpr(e, 1).ok /\ RefExpr(e, 1).pos = Len(e) + 1
RefValue(e) == RefExpr(e, 1).val

-----------------------------------------------------------------------------
\* C1: for every expression of non-negative literals, + - * / and matched
\* parentheses without division by zero, evaluate_expression returns the
\* value of standard infix arithmetic, also when a parenthesised
\* sub-expression is followed by a binary '-'.
C1_StandardArithmetic ==
    (Done /\ RefValid(Stripped)) =>
        \/ outcome = "Unmodelled"
        \/ outcome = "returned" /\ result = RefValue(Stripped)

-----------------------------------------------------------------------------
\* C6: in infix_to_rpn a ')' without a matching '(' never fails with a
\* stack underflow: the discard of the '(' is a no-op on an empty stack.
C6_NoUnderflowOnRightParen ==
    ~(pc = "convert" /\ outcome = "pop from empty list")

-----------------------------------------------------------------------------
\* C7: the output of infix_to_rpn holds only Number and Operator tokens; no
\* parenthesis is ever appended to it, a stray '(' included.
C7_OutputWithoutParens ==
    /\ \A n \in 1..Len(output) :
          output[n] # <<"(">> /\ output[n] # <<")">>
    /\ \A n \in 1..Len(rpn_expression) :
          rpn_expression[n] # <<"(">> /\ rpn_expression[n] # <<")">>

-----------------------------------------------------------------------------
\* C8: a malformed numeric literal is emitted as one Number token without
\* error, and the evaluate_expression call then ends in a numeric-parse
\* failure, so that it never returns a numeric result.
C8_MalformedLiteralFails ==
    (Done /\ Tokenized /\ \E n \in 1..Len(tokens) : Malformed(tokens[n])) =>
        outcome # "returned"

-----------------------------------------------------------------------------
\* C10: when tokenize_string does not fail, the concatenation of the tokens
\* in order is the input without its space characters; while scanning, the
\* tokens and the pending-number buffer hold exactly the characters read, and
\* the buffer is empty once the tokens are returned.
C10_TokensPreserveText ==
    /\ pc = "tokenize" =>
          Concat(tokens) \o current_number = SubSeq(Stripped, 1, i)
    /\ Tokenized =>
          /\ Concat(tokens) = Stripped
          /\ current_number = <<>>
          /\ \A n \in 1..Len(tokens) : tokens[n] # <<>>

C10_Witness ==
    /\ Tokenized
    /\ input = Ex_Negatives
    /\ Len(tokens) = 3
    /\ Len(tokens[3]) = 3

-----------------------------------------------------------------------------
\* C4: evaluate_expression fails with the unexpected-character error, naming
\* the first offending character, exactly when the space-stripped text holds
\* a character that is not a digit, '.', + - * / ^ or a parenthesis; the
\* error is raised in tokenization, before any conversion or evaluation step,
\* and no numeric result is returned.
C4_UnexpectedCharacter ==
    /\ Done => ((outcome = "Unexpected character") <=> HasBadChar)
    /\ HasBadChar =>
          /\ pc \in {"start", "tokenize"}
          /\ output = <<>> /\ stack = <<>> /\ k = 0
          /\ rpn_expression = <<>> /\ vstack = <<>> /\ j = 0
          /\ result = None
    /\ outcome = "Unexpected character" => char = FirstBadChar

C4_Witness ==
    /\ input = Ex_BadAfterDiv
    /\ outcome = "Unexpected character"
    /\ char = "$"
    /\ tokens = <<<<"4">>, <<"/">>, <<"0">>>>

-----------------------------------------------------------------------------
\* C5: evaluate_rpn fails with the division-by-zero error whenever it
\* applies '/' with a right operand equal to zero, and for '/' only then;
\* the error ends the call without a result.
C5_DivisionByZero ==
    /\ [](outcome = "Division by zero is not allowed" =>
            /\ pc = "evaluate"
            /\ token = <<"/">>
            /\ b = Zero
            /\ result = None)
    /\ [][(/\ outcome = "none" /\ pc = "evaluate"
           /\ j < Len(rpn_expression)
           /\ rpn_expression[j + 1] = <<"/">>
           /\ vstack # <<>>
           /\ vstack[Len(vstack)] = <<0, 1>>)
          => (outcome' = "Division by zero is not allowed" /\ result' = None)]_vars

C5_Witness ==
    /\ input = Ex_DivBySub
    /\ outcome = "Division by zero is not allowed"
    /\ a = <<2, 1>>
    /\ b = <<0, 1>>

-----------------------------------------------------------------------------
\* C2: '^' is right-associative and binds tighter than * / + -: for
\* non-negative literals x, y, z, "x^y^z" is converted to x y z ^ ^ and
\* evaluates to x^(y^z), "x^y op z" to x y ^ z op, and "x op y^z" to
\* x y z ^ op, for op one of * / + -.
PowShape(e, p, q) ==
    /\ 1 < p /\ p < q /\ q < Len(e)
    /\ NonNegLiteral(SubSeq(e, 1, p - 1))
    /\ NonNegLiteral(SubSeq(e, p + 1, q - 1))
    /\ NonNegLiteral(SubSeq(e, q + 1, Len(e)))

C2_PowerOrder ==
    \A p, q \in 1..Len(Stripped) :
        (PowShape(Stripped, p, q) /\ pc = "evaluate") =>
            LET e == Stripped
                x == SubSeq(e, 1, p - 1)
                y == SubSeq(e, p + 1, q - 1)
                z == SubSeq(e, q + 1, Len(e))
                o1 == <<e[p]>>
                o2 == <<e[q]>>
                lower == {"+", "-", "*", "/"}
            IN  /\ (e[p] = "^" /\ e[q] = "^") =>
                    /\ rpn_expression = <<x, y, z, o2, o1>>
                    /\ outcome = "returned" =>
                          result = Pow(ParseFloat(x),
                                       Pow(ParseFloat(y), ParseFloat(z)).val).val
                /\ (e[p] = "^" /\ e[q] \in lower) =>
                    /\ rpn_expression = <<x, y, o1, z, o2>>
                    /\ outcome = "returned" =>
                          result = Apply(o2, Pow(ParseFloat(x), ParseFloat(y)).val,
                                         ParseFloat(z)).val
                /\ (e[p] \in lower /\ e[q] = "^") =>
                    /\ rpn_expression = <<x, y, z, o2, o1>>
                    /\ outcome = "returned" =>
                          result = Apply(o1, ParseFloat(x),
                                         Pow(ParseFloat(y), ParseFloat(z)).val).val

C2_Witness ==
    /\ input = Ex_PowChain
    /\ outcome = "returned"
    /\ result = <<512, 1>>

-----------------------------------------------------------------------------
\* C3 as stated: a '-' is not emitted as the Operator token '-' exactly when
\* it is the first character of the stripped text or follows one of
\* ( - + * / ^ ); in every other position it is the Operator token '-'.
C3_MinusIsLiteralExactlyAfterSymbol ==
    Tokenized =>
        \A p \in 1..Len(Stripped) :
            Stripped[p] = "-" =>
                ((TokenAt(tokens, p)[1] # <<"-">>)
                    <=> AfterStartOrSymbol(Stripped, p))

\* C3, amended: a '-' that is the first character of the stripped text or
\* follows one of ( - + * / ^ ) starts the pending-number buffer; it becomes
\* the first character of a longer token when a digit or '.' follows it, and
\* is otherwise flushed as the bare token '-', the Operator token.  A '-' in
\* any other position is the Operator token '-'.  "-53 + -24" tokenizes to
\* -53, +, -24 and evaluates to -77.
C3_MinusIsLiteralWhenNumberFollows ==
    /\ Tokenized =>
        \A p \in 1..Len(Stripped) :
            Stripped[p] = "-" =>
                /\ TokenAt(tokens, p)[2] = 1
                /\ (TokenAt(tokens, p)[1] # <<"-">>)
                      <=> (/\ AfterStartOrSymbol(Stripped, p)
                           /\ FollowedByNumberChar(Stripped, p))
    /\ (input = Ex_Negatives /\ Tokenized) =>
          tokens = <<<<"-", "5", "3">>, <<"+">>, <<"-", "2", "4">>>>
    /\ (input = Ex_Negatives /\ Done) =>
          (outcome = "returned" /\ result = <<-77, 1>>)

C3_Witness ==
    /\ input = Ex_Negatives
    /\ outcome = "returned"
    /\ tokens[1] = <<"-", "5", "3">>
    /\ result = <<-77, 1>>

-----------------------------------------------------------------------------
\* What an Operator token computes from its operands.
OperatorValue(tok, x, y) ==
    CASE tok = <<"+">> -> Add(x, y)
      [] tok = <<"-">> -> Sub(x, y)
      [] tok = <<"*">> -> Mul(x, y)
      [] tok = <<"/">> -> Div(x, y)
      [] tok = <<"^">> -> Pow(x, y).val

AtOperator ==
    /\ outcome = "none" /\ pc = "evaluate"
    /\ j < Len(rpn_expression)
    /\ rpn_expression[j + 1] \in {<<"+">>, <<"-">>, <<"*">>, <<"/">>, <<"^">>}

\* C9 as stated: an operator applied to a one-entry stack does not fail and
\* leaves one entry.
C9_OperatorOnOneEntryNeverFails ==
    [][(AtOperator /\ Len(vstack) = 1)
        => \/ outcome' = "Unmodelled"
           \/ outcome' = "none" /\ Len(vstack') = 1]_vars

\* C9, amended: an Operator token pops b, then pops a if the stack is still
\* non-empty and otherwise takes a = 0, and then pushes exactly one value
\* a op b, unless '/' raises the division-by-zero error (b = 0) or '^'
\* raises the error of math.pow.  On a one-entry stack it leaves one entry
\* unless it raises one of these errors; on an empty stack it fails because
\* b is required.  "-(2+3)" evaluates to 0 - 5 = -5.
C9_OperatorStep ==
    /\ [][AtOperator =>
            IF vstack = <<>>
            THEN outcome' = "pop from empty list" /\ vstack' = vstack
            ELSE LET n == Len(vstack)
                     left == IF n >= 2 THEN vstack[n - 1] ELSE <<0, 1>>
                     kept == IF n >= 2 THEN SubSeq(vstack, 1, n - 2) ELSE <<>>
                     tok == rpn_expression[j + 1]
                 IN  /\ b' = vstack[n]
                     /\ a' = left
                     /\ \/ /\ outcome' = "none"
                           /\ j' = j + 1
                           /\ vstack' =
                                 Append(kept, OperatorValue(tok, left, vstack[n]))
                        \/ /\ outcome' = "Division by zero is not allowed"
                           /\ tok = <<"/">> /\ vstack[n] = <<0, 1>>
                        \/ /\ outcome' = "math domain error"
                           /\ tok = <<"^">>
                        \/ outcome' = "Unmodelled"]_vars
    /\ [](input = Ex_UnaryParen /\ Done =>
            outcome = "returned" /\ result = <<-5, 1>>)

C9_Witness ==
    /\ input = Ex_UnaryParen
    /\ outcome = "returned"
    /\ token = <<"-">>
    /\ a = <<0, 1>>
    /\ b = <<5, 1>>
    /\ result = <<-5, 1>>

====
